---- MODULE Spec2Model ----
(***************************************************************************)
(* some6502: the register file, the MemoryBus addressing modes and the ADC *)
(* instruction family of src/lib.rs, as a state machine.                   *)
(*                                                                         *)
(* The machine state is the pair the InstructionExecution trait hands out  *)
(* through registers() and bus(): the five fields of Registers and the     *)
(* memory behind the MemoryBus.  Every trait method is an operator on that *)
(* state (a record m with fields a, x, y, flags, pc, memory), and an       *)
(* action applies one method and records the call in `last`.               *)
(***************************************************************************)
EXTENDS Integers, FiniteSets, Sequences, TLC

VARIABLES a, x, y, flags, pc, memory, last

vars == <<a, x, y, flags, pc, memory, last>>

(***************************************************************************)
(* Program constants.                                                      *)
(***************************************************************************)
NEGATIVE_SIGN_U8 == 128

CARRY == 1

ZERO == 2

INTERRUPT == 4

DECIMAL == 8

B_FLAG == 48

OVERFLOW == 64

NEGATIVE == NEGATIVE_SIGN_U8

U8_MAX == 255

U16_MAX == 65535

(***************************************************************************)
(* Bounds of the model.                                                    *)
(* Radius: operand bytes are taken within Radius of 0x00, 0x80 and 0xFF,   *)
(* the values at which carries, sign changes and page wraps happen.        *)
(* NumImages: number of memory images the bus may hold at the start.       *)
(***************************************************************************)
Radius == 2

NumImages == 3

(***************************************************************************)
(* Integer operators of the source language, by what they compute.         *)
(***************************************************************************)
RECURSIVE BitAnd(_, _)
BitAnd(p, q) ==
    IF p = 0 \/ q = 0 THEN 0
    ELSE (p % 2) * (q % 2) + 2 * BitAnd(p \div 2, q \div 2)

RECURSIVE BitOr(_, _)
BitOr(p, q) ==
    IF p = 0 THEN q
    ELSE IF q = 0 THEN p
    ELSE (IF p % 2 = 1 \/ q % 2 = 1 THEN 1 ELSE 0) + 2 * BitOr(p \div 2, q \div 2)

RECURSIVE BitXor(_, _)
BitXor(p, q) ==
    IF p = 0 THEN q
    ELSE IF q = 0 THEN p
    ELSE (((p % 2) + (q % 2)) % 2) + 2 * BitXor(p \div 2, q \div 2)

\* uN::overflowing_add: the wrapped sum and whether it wrapped; max is uN::MAX.
overflowing_add(p, q, max) ==
    IF p + q > max THEN <<p + q - (max + 1), TRUE>> ELSE <<p + q, FALSE>>

\* The + operator on uN: an overflowing sum is a panic in a checked build and
\* wraps otherwise; `panicked` records that the sum left the type's range.
checked_add(p, q, max) ==
    [panicked |-> p + q > max, value |-> (p + q) % (max + 1)]

\* u16::from_le_bytes([lo, hi])
from_le_bytes(lo, hi) == lo + hi * (U8_MAX + 1)

\* StatusRegister::set(flag, condition) of the bitflags type over u8.
set(f, flag, condition) ==
    IF condition THEN BitOr(f, flag) ELSE BitAnd(f, U8_MAX - flag)

(***************************************************************************)
(* The memory behind the bus: 65536 bytes.  It is kept as an image (the    *)
(* contents the bus starts with) and the cells written since that differ   *)
(* from the image.  Image 0 is the zero-filled memory of TestBus::new();   *)
(* the other images give every address a byte that depends on its page     *)
(* and on its offset in the page.  read and write are total on the 16-bit  *)
(* address space, as the trait declares them (the array of the tests'      *)
(* TestBus has u16::MAX cells and no cell for address 0xFFFF).             *)
(***************************************************************************)
Fill(image, address) ==
    IF image = 0 THEN 0
    ELSE ((address % 256) + 3 * (address \div 256) + 85 * (image - 1)) % 256

NewBus(image) == [image |-> image, cells |-> <<>>]

read(mem, address) ==
    IF address \in DOMAIN mem.cells THEN mem.cells[address]
    ELSE Fill(mem.image, address)

write(mem, address, value) ==
    LET keep == IF value = Fill(mem.image, address)
                THEN DOMAIN mem.cells \ {address}
                ELSE DOMAIN mem.cells \cup {address}
    IN  [mem EXCEPT !.cells =
            [c \in keep |-> IF c = address THEN value ELSE mem.cells[c]]]

(***************************************************************************)
(* MemoryBus: the derived addressing modes.                                *)
(***************************************************************************)
abs_idx(address, idx) == overflowing_add(address, idx, U16_MAX)[1]

\* abs_indirect without the page wrap: the high byte always comes from address + 1.
abs_indirect_no_wrap(mem, address) ==
    LET hi_addr == checked_add(address, 1, U16_MAX)
        lo == read(mem, address)
        hi == read(mem, hi_addr.value)
    IN  [panicked |-> hi_addr.panicked, value |-> from_le_bytes(lo, hi)]

abs_indirect(mem, address) ==
    LET hi_addr == IF BitAnd(address, 255) = 255
                   THEN [panicked |-> FALSE, value |-> BitAnd(address, 65280)]
                   ELSE checked_add(address, 1, U16_MAX)
        lo == read(mem, address)
        hi == read(mem, hi_addr.value)
    IN  [panicked |-> hi_addr.panicked, value |-> from_le_bytes(lo, hi)]

\* indirect_x whose second pointer byte is fetched at p + 1 as a 16-bit address.
indirect_x_no_wrap(mem, address, idx) ==
    LET p  == overflowing_add(address, idx, U8_MAX)[1]
        lo == read(mem, p)
        hi == read(mem, p + 1)
    IN  from_le_bytes(lo, hi)

indirect_x(mem, address, idx) ==
    LET p  == overflowing_add(address, idx, U8_MAX)[1]
        lo == read(mem, p)
        hi == read(mem, overflowing_add(p, 1, U8_MAX)[1])
    IN  from_le_bytes(lo, hi)

\* indirect_y that drops the carry of the low-byte addition.
indirect_y_no_carry(mem, address, idx) ==
    LET sum   == overflowing_add(read(mem, address), idx, U8_MAX)
        lo    == sum[1]
        hi    == read(mem, overflowing_add(address, 1, U8_MAX)[1])
    IN  from_le_bytes(lo, hi)

indirect_y(mem, address, idx) ==
    LET sum   == overflowing_add(read(mem, address), idx, U8_MAX)
        lo    == sum[1]
        carry == sum[2]
        value == read(mem, overflowing_add(address, 1, U8_MAX)[1])
        hi    == IF carry THEN overflowing_add(value, 1, U8_MAX)[1] ELSE value
    IN  from_le_bytes(lo, hi)

\* zero_idx that adds as 16-bit values, so the sum carries into page 1.
zero_idx_carry(address, idx) == overflowing_add(address, idx, U16_MAX)[1]

zero_idx(address, idx) == overflowing_add(address, idx, U8_MAX)[1]

(***************************************************************************)
(* Registers.                                                              *)
(***************************************************************************)
new == [a |-> 0, x |-> 0, y |-> 0, flags |-> 0, pc |-> 0]

reset(m) == [m EXCEPT !.a = 0, !.x = 0, !.y = 0, !.flags = 0, !.pc = 0]

(***************************************************************************)
(* InstructionExecution: ADC.                                              *)
(***************************************************************************)
\* adc_sum that forgets the carry-in.
adc_sum_no_carry(m, value) == m.a + value

\* The sum as u32: accumulator + value + the CARRY bit of the flags.
adc_sum(m, value) == m.a + value + BitAnd(m.flags, CARRY)

\* adc_overflow evaluated after the accumulator was overwritten by the result.
adc_overflow_after_store(acc, value, result) ==
    /\ BitAnd(BitXor(result, value), NEGATIVE_SIGN_U8) = 0
    /\ BitAnd(BitXor(result, result), NEGATIVE_SIGN_U8) = NEGATIVE_SIGN_U8

\* adc_overflow that only compares the accumulator's sign with the result's.
adc_overflow_sign_change(acc, value, result) ==
    BitAnd(BitXor(acc, result), NEGATIVE_SIGN_U8) = NEGATIVE_SIGN_U8

\* Both operands have the same sign and the result has the other one.
adc_overflow(acc, value, result) ==
    /\ BitAnd(BitXor(acc, value), NEGATIVE_SIGN_U8) = 0
    /\ BitAnd(BitXor(acc, result), NEGATIVE_SIGN_U8) = NEGATIVE_SIGN_U8

\* adc_common that tests the untruncated sum for zero.
adc_common_zero_of_sum(m, value) ==
    LET result32 == adc_sum(m, value)
        f1       == set(m.flags, CARRY, result32 > U8_MAX)
        result   == BitAnd(result32, U8_MAX)
        f2       == set(f1, OVERFLOW, adc_overflow(m.a, value, result))
        f3       == set(f2, NEGATIVE,
                        BitAnd(result, NEGATIVE_SIGN_U8) = NEGATIVE_SIGN_U8)
        f4       == set(f3, ZERO, result32 = 0)
    IN  [m EXCEPT !.flags = f4, !.a = result]

adc_common(m, value) ==
    LET result32 == adc_sum(m, value)
        f1       == set(m.flags, CARRY, result32 > U8_MAX)
        result   == BitAnd(result32, U8_MAX)
        f2       == set(f1, OVERFLOW, adc_overflow(m.a, value, result))
        f3       == set(f2, NEGATIVE,
                        BitAnd(result, NEGATIVE_SIGN_U8) = NEGATIVE_SIGN_U8)
        f4       == set(f3, ZERO, result = 0)
    IN  [m EXCEPT !.flags = f4, !.a = result]

adc_imm(m, value) == adc_common(m, value)

\* adc_zero that stores the sum back to the operand's address.
adc_zero_store_back(m, address) ==
    LET r == adc_common(m, read(m.memory, address))
    IN  [r EXCEPT !.memory = write(m.memory, address, r.a)]

adc_zero(m, address) == adc_common(m, read(m.memory, address))

adc_zero_x(m, address) ==
    LET zero_addr == zero_idx(address, m.x)
    IN  adc_common(m, read(m.memory, zero_addr))

adc_abs(m, address) == adc_common(m, read(m.memory, address))

adc_abs_x(m, address) ==
    LET abs_addr == abs_idx(address, m.x)
    IN  adc_common(m, read(m.memory, abs_addr))

adc_abs_y(m, address) ==
    LET abs_addr == abs_idx(address, m.y)
    IN  adc_common(m, read(m.memory, abs_addr))

adc_ind_x(m, address) ==
    LET indirect_addr == indirect_x(m.memory, address, m.x)
    IN  adc_common(m, read(m.memory, indirect_addr))

\* adc_ind_y that indexes with X.
adc_ind_y_with_x(m, address) ==
    LET indirect_addr == indirect_y(m.memory, address, m.x)
    IN  adc_common(m, read(m.memory, indirect_addr))

adc_ind_y(m, address) ==
    LET indirect_addr == indirect_y(m.memory, address, m.y)
    IN  adc_common(m, read(m.memory, indirect_addr))

(***************************************************************************)
(* Inputs.                                                                 *)
(***************************************************************************)
Near(c) == {b \in 0..U8_MAX : b >= c - Radius /\ b <= c + Radius}

ByteSamples == Near(0) \cup Near(NEGATIVE_SIGN_U8) \cup Near(U8_MAX)

PageSamples == {0, 1, 171, 255}

AddrSamples == {from_le_bytes(lo, hi) : lo \in ByteSamples, hi \in PageSamples}

\* flag bytes a caller may have left: empty, C|I|D|B|V, Z|V|N
FlagSamples == {0, 125, 194}

\* <<x, y, pc>> as a caller may have left them
IndexSamples == {<<0, 0, 0>>, <<1, 255, 4660>>, <<255, 1, 65535>>, <<11, 14, 256>>}

Images == 0..(NumImages - 1)

(***************************************************************************)
(* The state machine.                                                      *)
(***************************************************************************)
Cur == [a |-> a, x |-> x, y |-> y, flags |-> flags, pc |-> pc, memory |-> memory]

Call(op, arg, idx) ==
    [op |-> op, pre |-> Cur, arg |-> arg, idx |-> idx, ret |-> 0, panicked |-> FALSE]

Becomes(m) ==
    /\ a' = m.a
    /\ x' = m.x
    /\ y' = m.y
    /\ flags' = m.flags
    /\ pc' = m.pc
    /\ memory' = m.memory

Fresh == [op |-> "new", pre |-> Cur, arg |-> 0, idx |-> 0, ret |-> 0, panicked |-> FALSE]

\* No method has been called on this state yet.
First == last.op = "new"

\* Nothing but a write has been called on this state yet.
Settled == last.op \in {"new", "write"}

Untouched == UNCHANGED <<a, x, y, flags, pc, memory>>

(***************************************************************************)
(* Actions: one per method.                                                *)
(***************************************************************************)
call_adc_common(value) ==
    /\ Becomes(adc_common(Cur, value))
    /\ last' = Call("adc_common", value, 0)

call_adc_imm(value) ==
    /\ Becomes(adc_imm(Cur, value))
    /\ last' = Call("adc_imm", value, 0)

call_adc_zero(address) ==
    /\ Becomes(adc_zero(Cur, address))
    /\ last' = Call("adc_zero", address, 0)

call_adc_zero_x(address) ==
    /\ Becomes(adc_zero_x(Cur, address))
    /\ last' = Call("adc_zero_x", address, 0)

call_adc_abs(address) ==
    /\ Becomes(adc_abs(Cur, address))
    /\ last' = Call("adc_abs", address, 0)

call_adc_abs_x(address) ==
    /\ Becomes(adc_abs_x(Cur, address))
    /\ last' = Call("adc_abs_x", address, 0)

call_adc_abs_y(address) ==
    /\ Becomes(adc_abs_y(Cur, address))
    /\ last' = Call("adc_abs_y", address, 0)

call_adc_ind_x(address) ==
    /\ Becomes(adc_ind_x(Cur, address))
    /\ last' = Call("adc_ind_x", address, 0)

call_adc_ind_y(address) ==
    /\ Becomes(adc_ind_y(Cur, address))
    /\ last' = Call("adc_ind_y", address, 0)

call_reset ==
    /\ Becomes(reset(Cur))
    /\ last' = Call("reset", 0, 0)

call_abs_idx(address, idx) ==
    /\ Untouched
    /\ last' = [Call("abs_idx", address, idx) EXCEPT !.ret = abs_idx(address, idx)]

call_zero_idx(address, idx) ==
    /\ Untouched
    /\ last' = [Call("zero_idx", address, idx) EXCEPT !.ret = zero_idx(address, idx)]

call_abs_indirect(address) ==
    /\ Untouched
    /\ LET r == abs_indirect(memory, address)
       IN  last' = [Call("abs_indirect", address, 0)
                        EXCEPT !.ret = r.value, !.panicked = r.panicked]

call_indirect_x(address, idx) ==
    /\ Untouched
    /\ last' = [Call("indirect_x", address, idx)
                    EXCEPT !.ret = indirect_x(memory, address, idx)]

call_indirect_y(address, idx) ==
    /\ Untouched
    /\ last' = [Call("indirect_y", address, idx)
                    EXCEPT !.ret = indirect_y(memory, address, idx)]

call_read(address) ==
    /\ Untouched
    /\ last' = [Call("read", address, 0) EXCEPT !.ret = read(memory, address)]

call_write(address, value) ==
    /\ memory' = write(memory, address, value)
    /\ UNCHANGED <<a, x, y, flags, pc>>
    /\ last' = Call("write", address, value)

(***************************************************************************)
(* Spec: one instruction of the InstructionExecution trait, or a reset,    *)
(* applied to a register file and a memory a caller may have prepared (the *)
(* fields of Registers are public, and any memory can be written).         *)
(***************************************************************************)
Init ==
    /\ a \in ByteSamples
    /\ flags \in FlagSamples
    /\ \E r \in IndexSamples : x = r[1] /\ y = r[2] /\ pc = r[3]
    /\ \E image \in Images : memory = NewBus(image)
    /\ last = Fresh

Next ==
       \/ \E value \in ByteSamples : First /\ call_adc_common(value)
       \/ \E value \in ByteSamples : First /\ call_adc_imm(value)
       \/ \E address \in ByteSamples : First /\ call_adc_zero(address)
       \/ \E address \in ByteSamples : First /\ call_adc_zero_x(address)
       \/ \E address \in AddrSamples : First /\ call_adc_abs(address)
       \/ \E address \in AddrSamples : First /\ call_adc_abs_x(address)
       \/ \E address \in AddrSamples : First /\ call_adc_abs_y(address)
       \/ \E address \in ByteSamples : First /\ call_adc_ind_x(address)
       \/ \E address \in ByteSamples : First /\ call_adc_ind_y(address)
       \/ First /\ call_reset

Spec == Init /\ [][Next]_vars

(***************************************************************************)
(* SpecAlu: any sequence of adc_common calls and resets, from              *)
(* Registers::new().                                                       *)
(***************************************************************************)
InitAlu ==
    /\ a = new.a /\ x = new.x /\ y = new.y /\ flags = new.flags /\ pc = new.pc
    /\ memory = NewBus(0)
    /\ last = Fresh

NextAlu ==
    \/ \E value \in ByteSamples : call_adc_common(value)
    \/ call_reset

SpecAlu == InitAlu /\ [][NextAlu]_vars

(***************************************************************************)
(* SpecAddr: one method of the MemoryBus trait applied to a bus holding    *)
(* any of the images, as it is or after one write into the zero page of a  *)
(* byte at which a pointer's low byte carries and its high byte wraps.     *)
(***************************************************************************)
InitAddr ==
    /\ a = new.a /\ x = new.x /\ y = new.y /\ flags = new.flags /\ pc = new.pc
    /\ \E image \in Images : memory = NewBus(image)
    /\ last = Fresh

NextAddr ==
       \/ \E address \in AddrSamples, idx \in ByteSamples : Settled /\ call_abs_idx(address, idx)
       \/ \E address \in ByteSamples, idx \in ByteSamples : Settled /\ call_zero_idx(address, idx)
       \/ \E address \in AddrSamples : Settled /\ call_abs_indirect(address)
       \/ \E address \in ByteSamples, idx \in ByteSamples : Settled /\ call_indirect_x(address, idx)
       \/ \E address \in ByteSamples, idx \in ByteSamples : Settled /\ call_indirect_y(address, idx)
       \/ \E address \in AddrSamples : Settled /\ call_read(address)
       \/ \E address \in ByteSamples, value \in Near(U8_MAX) : First /\ call_write(address, value)

SpecAddr == InitAddr /\ [][NextAddr]_vars

(***************************************************************************)
(* Properties.  They read bits arithmetically, not through the operators   *)
(* of the model.                                                           *)
(***************************************************************************)
Has(f, flag) == (f \div flag) % 2 = 1

Bit7(b) == (b \div 128) % 2

Signed(b) == IF b < 128 THEN b ELSE b - 256

AdcOps == {"adc_common", "adc_imm", "adc_zero", "adc_zero_x", "adc_abs",
           "adc_abs_x", "adc_abs_y", "adc_ind_x", "adc_ind_y"}

\* C1: a step of adc_common(value) from accumulator a and carry-in c (the
\* CARRY the previous call left) ends with the accumulator (a + value + c)
\* mod 256 and with CARRY set iff a + value + c > 255.
C1_SumAndCarry ==
    [][last'.op = "adc_common" =>
        LET sum == a + last'.arg + (IF Has(flags, CARRY) THEN 1 ELSE 0)
        IN  /\ last'.pre.a = a /\ last'.pre.flags = flags
            /\ a' = sum % 256
            /\ Has(flags', CARRY) <=> sum > 255]_vars

\* C1 witness: a carry left by one call is what carries the next one out.
C1_Witness ==
    /\ last.op = "adc_common"
    /\ Has(last.pre.flags, CARRY)
    /\ last.pre.a + last.arg = 255
    /\ a = 0
    /\ Has(flags, CARRY)

\* C2: after adc_common, OVERFLOW is set iff the accumulator before the call
\* and the operand have the same bit 7 and the accumulator before the call
\* and the result differ in bit 7.
C2_OverflowBits ==
    last.op = "adc_common" =>
        (Has(flags, OVERFLOW) <=>
            /\ Bit7(last.pre.a) = Bit7(last.arg)
            /\ Bit7(last.pre.a) # Bit7(a))

\* C2 witness: negative + negative = positive sets OVERFLOW that was clear.
C2_Witness ==
    /\ last.op = "adc_common"
    /\ last.pre.a >= 128 /\ last.arg >= 128 /\ a < 128
    /\ ~Has(last.pre.flags, OVERFLOW)
    /\ Has(flags, OVERFLOW)

\* C3: after any adc operation ZERO is set iff the accumulator is 0 and
\* NEGATIVE iff its bit 7 is set, so never both.
C3_ZeroNegative ==
    last.op \in AdcOps =>
        /\ Has(flags, ZERO) <=> a = 0
        /\ Has(flags, NEGATIVE) <=> Bit7(a) = 1
        /\ ~(Has(flags, ZERO) /\ Has(flags, NEGATIVE))

\* C3 witness: a variant starts with ZERO and NEGATIVE both set and
\* wraps the accumulator to 0.
C3_Witness ==
    /\ last.op = "adc_zero_x"
    /\ Has(last.pre.flags, ZERO) /\ Has(last.pre.flags, NEGATIVE)
    /\ last.pre.a # 0
    /\ a = 0
    /\ Has(flags, ZERO) /\ ~Has(flags, NEGATIVE)

\* C4: abs_indirect(address) is read(address) + 256 * read(hi_addr) with
\* hi_addr the start of the page when address ends in 0xFF and address + 1
\* otherwise; hi_addr is in address's page, and no sum leaves 16 bits.
C4_AbsIndirect ==
    last.op = "abs_indirect" =>
        LET address == last.arg
            hi_addr == IF address % 256 = 255 THEN address - 255 ELSE address + 1
        IN  /\ ~last.panicked
            /\ hi_addr \div 256 = address \div 256
            /\ last.ret = read(last.pre.memory, address)
                            + 256 * read(last.pre.memory, hi_addr)

\* C4 witness: abs_indirect(0xFFFF) took its high byte from 0xFF00, which
\* holds another byte than 0x0000.
C4_Witness ==
    /\ last.op = "abs_indirect"
    /\ last.arg = 65535
    /\ read(memory, 65280) # read(memory, 0)
    /\ last.ret \div 256 = read(memory, 65280)

\* C5: indirect_y(address, y) is (pointer + y) mod 65536 for the pointer
\* stored at address and (address + 1) mod 256: low byte (low + y) mod 256,
\* high byte (high + 1) mod 256 if low + y > 255 and high otherwise.
C5_IndirectY ==
    last.op = "indirect_y" =>
        LET low  == read(last.pre.memory, last.arg)
            high == read(last.pre.memory, (last.arg + 1) % 256)
        IN  /\ last.ret = (low + 256 * high + last.idx) % 65536
            /\ last.ret % 256 = (low + last.idx) % 256
            /\ last.ret \div 256 =
                  IF low + last.idx > 255 THEN (high + 1) % 256 ELSE high

\* C5 witness: the low byte carries into a high byte of 0xFF.
C5_Witness ==
    /\ last.op = "indirect_y"
    /\ read(memory, last.arg) + last.idx > 255
    /\ read(memory, (last.arg + 1) % 256) = 255
    /\ last.ret < 256

\* C6: indirect_x(address, x) is read(p) + 256 * read((p + 1) mod 256) with
\* p = (address + x) mod 256: both bytes come from the zero page.
C6_IndirectX ==
    last.op = "indirect_x" =>
        LET p == (last.arg + last.idx) % 256
        IN  last.ret = read(last.pre.memory, p)
                        + 256 * read(last.pre.memory, (p + 1) % 256)

\* C6 witness: address + x gives p = 0xFF and the high byte is the one at
\* 0x0000, which differs from the one at 0x0100.
C6_Witness ==
    /\ last.op = "indirect_x"
    /\ last.idx # 0
    /\ last.arg + last.idx = 255
    /\ read(memory, 0) # read(memory, 256)
    /\ last.ret \div 256 = read(memory, 0)

\* The operand each variant resolves, from the machine state before the call.
Operand(op, m, arg) ==
    CASE op = "adc_imm"    -> arg
      [] op = "adc_zero"   -> read(m.memory, arg)
      [] op = "adc_zero_x" -> read(m.memory, zero_idx(arg, m.x))
      [] op = "adc_abs"    -> read(m.memory, arg)
      [] op = "adc_abs_x"  -> read(m.memory, abs_idx(arg, m.x))
      [] op = "adc_abs_y"  -> read(m.memory, abs_idx(arg, m.y))
      [] op = "adc_ind_x"  -> read(m.memory, indirect_x(m.memory, arg, m.x))
      [] op = "adc_ind_y"  -> read(m.memory, indirect_y(m.memory, arg, m.y))

\* C7: each addressing variant leaves the state adc_common leaves when given
\* the operand of the variant's mode.
C7_VariantsDelegate ==
    last.op \in AdcOps \ {"adc_common"} =>
        Cur = adc_common(last.pre, Operand(last.op, last.pre, last.arg))

\* C7 witness: adc_ind_y resolved through Y, where X would have given
\* another operand, and the accumulator changed.
C7_Witness ==
    /\ last.op = "adc_ind_y"
    /\ read(memory, indirect_y(memory, last.arg, y))
         # read(memory, indirect_y(memory, last.arg, x))
    /\ a # last.pre.a

\* C8: abs_idx is (address + idx) mod 65536; zero_idx is (address + idx)
\* mod 256, a value with high byte 0.
C8_IndexedWrap ==
    /\ last.op = "abs_idx" => last.ret = (last.arg + last.idx) % 65536
    /\ last.op = "zero_idx" =>
          /\ last.ret = (last.arg + last.idx) % 256
          /\ last.ret \div 256 = 0

\* C8 witness: a zero-page sum beyond 0xFF came back inside the zero page.
C8_Witness ==
    /\ last.op = "zero_idx"
    /\ last.arg + last.idx > 255
    /\ last.ret < 256

\* C9: an adc operation leaves X, Y, the program counter, the INTERRUPT,
\* DECIMAL and B_FLAG bits and the memory as they were.
C9_Frame ==
    last.op \in AdcOps =>
        /\ x = last.pre.x
        /\ y = last.pre.y
        /\ pc = last.pre.pc
        /\ (flags \div 4) % 16 = (last.pre.flags \div 4) % 16
        /\ memory = last.pre.memory

\* C9 witness: an adc through memory changed the accumulator and CARRY while
\* INTERRUPT, DECIMAL and B_FLAG were set and X, Y and pc were not 0.
C9_Witness ==
    /\ last.op = "adc_zero"
    /\ (last.pre.flags \div 4) % 16 = 15
    /\ x # 0 /\ y # 0 /\ pc # 0
    /\ a # last.pre.a
    /\ Has(flags, CARRY) # Has(last.pre.flags, CARRY)

\* C10: after adc_common, OVERFLOW is set iff the signed sum of the
\* accumulator, the operand and the carry-in is outside -128..127.
C10_SignedOverflow ==
    last.op = "adc_common" =>
        LET sum == Signed(last.pre.a) + Signed(last.arg)
                     + (IF Has(last.pre.flags, CARRY) THEN 1 ELSE 0)
        IN  Has(flags, OVERFLOW) <=> (sum < -128 \/ sum > 127)

\* C10 witness: the carry-in alone takes the signed sum out of range.
C10_Witness ==
    /\ last.op = "adc_common"
    /\ Has(last.pre.flags, CARRY)
    /\ Signed(last.pre.a) + Signed(last.arg) = 127
    /\ Has(flags, OVERFLOW)

====
